---- MODULE Spec2Model ----
(***************************************************************************)
(* Hut-to-hut graph construction of build_cabane_graph.py:                 *)
(*   build_hut_graph        one bounded Dijkstra search per anchored hut,  *)
(*                          which stops at the anchor of any other hut,    *)
(*   prune_redundant_edges  removal of the links that a two-hop route      *)
(*                          through a third hut approximates.              *)
(*                                                                         *)
(* Distances on the trail graph are metres, distances in the edge table    *)
(* are kilometres.  Trail segments are whole kilometres long here, so that *)
(* the division d / 1000.0 of the code is exact; the tolerance epsilon is  *)
(* kept in percent, so that d_ab * (1.0 + epsilon) is compared exactly.    *)
(***************************************************************************)
EXTENDS Integers, Sequences, FiniteSets, TLC

\* ---------------------------------------------------------------- bounds
\* a trail segment is 1 .. MaxWeightKm kilometres long
MaxWeightKm == 2
\* the value of max_distance_km handed to build_hut_graph
MaxSearchKm == 3
\* number of times prune_redundant_edges is applied in PruneSpec
MaxPasses == 2
\* node ids of a way
MaxWayLen == 3

\* ------------------------------------------------------ program constants
\* d_km = d / 1000.0 and max_distance_m = max_distance_km * 1000.0
MetresPerKm == 1000
\* prune_redundant_edges(best_dist_for_pair, epsilon=0.05), in percent
DefaultEpsilonPct == 5

\* --------------------------------------------------------- input universe
\* node identifiers of the trail network
TrailNodes == {1, 2, 3, 4}
\* the node pairs that a way may join
Segments == {<<1, 2>>, <<1, 3>>, <<2, 3>>, <<2, 4>>, <<3, 4>>}
\* hut identifiers: 1, 2, 3 are also trail nodes, 5 is not
HutIds == {1, 2, 3, 5}
\* no anchor (None)
NoAnchor == 0

\* cell_size_deg = 0.05, in hundredths of a degree
CellSize == 5

\* R * radians(0.01): the metres of a hundredth of a degree
MetresPerUnit == 1112

\* max_radius_m=3_000.0
DefaultRadius == 3000

\* no two points of the model are farther apart, in metres
MaxMetres == 32767

\* the places of the trail nodes and of the huts, <<lat, lon>>
Positions == {<<0 - 6, 1>>, <<0 - 3, 2>>, <<0 - 1, 0>>, <<4, 2>>, <<10, 2>>}

\* the radii compute_hut_anchors is called with
Radii == {0, DefaultRadius, 9000}

\* the distances of the tables pruned with the order of the huts followed
OrderDistances == {1, 20}

\* the ways of build_graph, the node ids they name and the places of the
\* nodes, by id; nodes 2 and 3 are at the same place
WayIds == {1, 2}
WayNodes == {1, 2, 3}
Places == <<<<0 - 1, 0>>, <<4, 2>>, <<4, 2>>>>

\* the trail nodes and the huts of the anchoring
IndexedNodes == {1, 2, 3}
LocatedHuts == {1, 5}
\* tables handed to prune_redundant_edges in PruneSpec
PruneDistances == {10, 12, 21}
PruneEpsilons == {0, 5, 15}

VARIABLES
    graph,                \* node -> list of <<neighbour, metres>>
    anchor_by_hut,        \* hut -> anchor node (anchored huts only)
    huts_by_anchor,       \* anchor node -> set of huts
    max_distance_km,
    hut_ids_with_anchor,  \* sorted list of the anchored huts
    idx,                  \* position of the for loop over the sources
    dist_dict,            \* node -> best known distance of this search
    heap,                 \* set of <<distance, node>> entries
    best_dist_for_pair,   \* <<a, b>> -> km
    epsilon,              \* tolerance of the pruning, percent
    pairs_items,          \* pairs the pruning loop has still to visit
    to_remove,
    edges,                \* the list returned by build_hut_graph
    pc,                   \* position in main and in the function it runs
    \* history variables
    raw,                  \* the table as prune_redundant_edges received it
    passes,               \* number of calls of prune_redundant_edges
    dropped,              \* every pair a call of it has deleted
    candidates,           \* every <<source, pair, km>> a search recorded
    pred,                 \* node -> node it was reached from, this search
    route,                \* pair -> nodes and distances behind its value
    last,                 \* what the last loop iteration did
    expansions,           \* node -> times its neighbours were examined
    \* main, before and after build_hut_graph
    hut_ids,              \* the huts load_huts_per_country kept
    unanchored,           \* the list main prints: huts without anchor
    huts_csv,             \* hut ids of the rows written to huts.csv
    edges_csv,            \* rows written to huts_edges.csv
    \* build_graph
    nodes,                \* node id -> <<lat, lon>>
    ways,                 \* list of ways, each a list of node ids
    way_i,                \* position of the loop over the ways
    seg_i,                \* position of the loop over the way's segments
    inserted,             \* history: the <<way, segment>> pairs inserted
    \* compute_hut_anchors
    cells,                \* <<i, j>> -> list of node ids
    max_radius_m,
    hut_ids_list,         \* list(hut_ids)
    hut_i,                \* position of the loop over hut_ids_list
    no_anchor,            \* counter of the huts without anchor
    \* prune_redundant_edges, when the order of its set is followed
    huts,                 \* the huts of the table as the set yields them
    \* the searches of build_hut_graph when they run side by side
    workers               \* hut -> [dist, heap, todo, done] of its search

vars == <<graph, anchor_by_hut, huts_by_anchor, max_distance_km,
          hut_ids_with_anchor, idx, dist_dict, heap, best_dist_for_pair,
          epsilon, pairs_items, to_remove, edges, pc,
          raw, passes, dropped, candidates, pred, route, last, expansions,
          hut_ids, unanchored, huts_csv, edges_csv,
          nodes, ways, way_i, seg_i, inserted,
          cells, max_radius_m, hut_ids_list, hut_i, no_anchor, huts,
          workers>>

inputs == <<graph, anchor_by_hut, huts_by_anchor, max_distance_km,
            hut_ids_with_anchor>>

\* what main holds around build_hut_graph
mainVars == <<hut_ids, unanchored, huts_csv, edges_csv>>

\* the state of build_graph, apart from graph
buildVars == <<nodes, ways, way_i, seg_i, inserted>>

\* the state of compute_hut_anchors, apart from the two maps it fills
anchorVars == <<cells, max_radius_m, hut_ids_list, hut_i, no_anchor>>

\* what neither a search nor the pruning touches
frame == <<mainVars, buildVars, anchorVars, huts, workers>>

\* ------------------------------------------------------------- helpers
Min2(a, b) == IF a < b THEN a ELSE b
Max2(a, b) == IF a < b THEN b ELSE a

SetMin(S) == CHOOSE x \in S : \A y \in S : x <= y

RECURSIVE SortedSeq(_)
\* sorted(anchor_by_hut.keys())
SortedSeq(S) ==
    IF S = {} THEN <<>>
    ELSE LET m == SetMin(S) IN <<m>> \o SortedSeq(S \ {m})

Nothing == [x \in {} |-> 0]

Put(f, k, v) == [x \in DOMAIN f \cup {k} |-> IF x = k THEN v ELSE f[x]]

\* the lists without repetition that hold exactly the members of S
Orders(S) ==
    {s \in [1..Cardinality(S) -> S] : {s[i] : i \in DOMAIN s} = S}

\* the adjacency map build_graph leaves for a choice of segment lengths
\* (km, 0 = no way joins the pair): every segment in both directions with
\* the same weight, nodes without a segment have no key
AdjacencyOf(len) ==
    LET joined(n) == {t \in Segments : len[t] > 0 /\ n \in {t[1], t[2]}}
        other(n, t) == IF t[1] = n THEN t[2] ELSE t[1]
        nbrs(n) == SortedSeq({other(n, t) : t \in joined(n)})
        seg(n, m) == <<Min2(n, m), Max2(n, m)>>
        keys == {n \in TrailNodes : joined(n) # {}}
    IN  [n \in keys |->
            [i \in 1..Len(nbrs(n)) |->
                <<nbrs(n)[i], len[seg(n, nbrs(n)[i])] * MetresPerKm>>]]

\* the adjacency map build_graph leaves when every pair of Segments is
\* joined by a way, len[s] kilometres long, 0 included
AllSegments(len) ==
    LET g == AdjacencyOf([s \in Segments |-> len[s] + 1])
    IN  [n \in DOMAIN g |->
            [i \in DOMAIN g[n] |-> <<g[n][i][1], g[n][i][2] - MetresPerKm>>]]

\* huts_by_anchor[anchor].append(hut_id)
HutsByAnchor(abh) ==
    [n \in {abh[h] : h \in DOMAIN abh} |-> {h \in DOMAIN abh : abh[h] = n}]

\* max_distance_m = max_distance_km * 1000.0
max_distance_m == max_distance_km * MetresPerKm

hut_source == hut_ids_with_anchor[idx]
anchor_src == anchor_by_hut[hut_source]

NoStep == [branch |-> "none", src |-> 0, node |-> 0, d |-> 0, live |-> FALSE,
           pushed |-> {}, recorded |-> {}]

\* build_hut_graph and prune_redundant_edges are not looked at
NoSearch ==
    /\ max_distance_km = MaxSearchKm
    /\ hut_ids_with_anchor = <<>>
    /\ idx = 0
    /\ dist_dict = Nothing
    /\ heap = {}
    /\ best_dist_for_pair = Nothing
    /\ epsilon = DefaultEpsilonPct
    /\ pairs_items = {}
    /\ to_remove = {}
    /\ edges = {}
    /\ raw = Nothing
    /\ passes = 0
    /\ dropped = {}
    /\ candidates = {}
    /\ pred = Nothing
    /\ route = Nothing
    /\ expansions = Nothing
    /\ huts = <<>>
    /\ workers = Nothing
    /\ last = NoStep

searchVars == <<max_distance_km, hut_ids_with_anchor, idx, dist_dict, heap,
                best_dist_for_pair, epsilon, pairs_items, to_remove, edges,
                raw, passes, dropped, candidates, pred, route, expansions,
                huts, workers>>

\* -------------------------------------------- lookups in the shared dicts
\* a defaultdict after m[k]: a missing key is created with the empty value
AfterItem(m, k) == IF k \in DOMAIN m THEN m ELSE Put(m, k, {})

AfterIn_Item(m, k) == IF k \in DOMAIN m THEN m ELSE Put(m, k, {})

\* a dict or defaultdict after "k in m": the test calls no __missing__
AfterIn(m, k) == m

\* a dict or defaultdict after m.get(k, default): no key is created
AfterGet(m, k) == m

\* ------------------------------------------------- build_hut_graph: search
\* heapq.heappop: the smallest <<distance, node>> tuple
HeapMin(h) ==
    CHOOSE e \in h : \A f \in h :
        IF e[1] = f[1] THEN e[2] <= f[2] ELSE e[1] < f[1]

IsStale_Never(d, node, dd) == FALSE

\* dist_dict.get(node, float("inf")) compared with d
IsStale(d, node, dd) == IF node \in DOMAIN dd THEN d # dd[node] ELSE TRUE

StopsAt_Never(node, asrc, hba) == FALSE

StopsAt_HutNodesOnly(node, asrc, hba) ==
    node \in UNION {hba[n] : n \in DOMAIN hba} /\ node # asrc

\* "if node in huts_by_anchor and node != anchor_src: ... continue":
\* the search does not expand this node
StopsAt(node, asrc, hba) == node \in DOMAIN hba /\ node # asrc

Targets_FirstOnly(node, src, asrc, hba) ==
    IF node \in DOMAIN hba /\ node # asrc /\ hba[node] \ {src} # {}
    THEN {SetMin(hba[node] \ {src})}
    ELSE {}

Targets_AlsoOwnAnchor(node, src, asrc, hba) ==
    IF node \in DOMAIN hba THEN hba[node] \ {src} ELSE {}

Targets_NoSourceCheck(node, src, asrc, hba) ==
    IF node \in DOMAIN hba THEN hba[node] ELSE {}

Targets_LargerOnly(node, src, asrc, hba) ==
    IF node \in DOMAIN hba /\ node # asrc
    THEN {t \in hba[node] : t > src}
    ELSE {}

\* the huts an edge is recorded for when node is popped:
\* huts_by_anchor[node] without hut_source, when node is another anchor
Targets(node, src, asrc, hba) ==
    IF node \in DOMAIN hba /\ node # asrc
    THEN {t \in hba[node] : t # src}
    ELSE {}

ToKm_Metres(d) == d

\* d_km = d / 1000.0
ToKm(d) == d \div MetresPerKm

PairKey_Unordered(src, tgt) == <<src, tgt>>

\* a = min(hut_source, hut_target); b = max(hut_source, hut_target)
PairKey(src, tgt) == <<Min2(src, tgt), Max2(src, tgt)>>

Improves_AgainstAll(table, key, d_km) ==
    \A k \in DOMAIN table : d_km < table[k]

\* old = best_dist_for_pair.get((a, b)); if old is None or d_km < old
Improves(table, key, d_km) ==
    IF key \in DOMAIN table THEN d_km < table[key] ELSE TRUE

RECURSIVE RecordAll(_, _, _, _)
\* for hut_target in huts_by_anchor[node]: keep the minimum per pair
RecordAll(table, src, tgts, d_km) ==
    IF tgts = {} THEN table
    ELSE LET t == SetMin(tgts)
             key == PairKey(src, t)
             nxt == IF Improves(table, key, d_km)
                    THEN Put(table, key, d_km) ELSE table
         IN  RecordAll(nxt, src, tgts \ {t}, d_km)

RECURSIVE Relax_NoBound(_, _, _, _, _)
Relax_NoBound(adj, d, node, maxm, st) ==
    IF adj = <<>> THEN st
    ELSE LET neigh == Head(adj)[1]
             nd == d + Head(adj)[2]
             nxt == IF neigh \in DOMAIN st.dist => nd < st.dist[neigh]
                    THEN [dist |-> Put(st.dist, neigh, nd),
                          heap |-> st.heap \cup {<<nd, neigh>>},
                          pred |-> Put(st.pred, neigh, node)]
                    ELSE st
         IN  Relax_NoBound(Tail(adj), d, node, maxm, nxt)

RECURSIVE Relax(_, _, _, _, _)
\* for neigh, w in graph.get(node, []): push the neighbours reached at a
\* smaller distance that is within the bound; st = [dist, heap, pred]
Relax(adj, d, node, maxm, st) ==
    IF adj = <<>> THEN st
    ELSE LET neigh == Head(adj)[1]
             w == Head(adj)[2]
             nd == d + w
             smaller == IF neigh \in DOMAIN st.dist
                        THEN nd < st.dist[neigh] ELSE TRUE
             nxt == IF smaller /\ nd <= maxm
                    THEN [dist |-> Put(st.dist, neigh, nd),
                          heap |-> st.heap \cup {<<nd, neigh>>},
                          pred |-> Put(st.pred, neigh, node)]
                    ELSE st
         IN  Relax(Tail(adj), d, node, maxm, nxt)

\* graph.get(node, [])
AdjGet(g, node) == IF node \in DOMAIN g THEN g[node] ELSE <<>>

RECURSIVE PathTo(_, _, _)
\* the nodes from the source anchor to node along pred, with the distance
\* at which each was reached
PathTo(pr, dd, node) ==
    IF node \in DOMAIN pr
    THEN PathTo(pr, dd, pr[node]) \o <<<<node, dd[node]>>>>
    ELSE <<<<node, dd[node]>>>>

\* ------------------------------------------- prune_redundant_edges
\* huts = set(); for (a, b) in keys: huts.add(a); huts.add(b)
HutsOf(table) == {k[1] : k \in DOMAIN table} \cup {k[2] : k \in DOMAIN table}

\* the value None of dist(a, b)
None == 0 - 1

Dist_DefaultZero(table, a, b) ==
    IF a = b THEN 0
    ELSE LET key == IF a < b THEN <<a, b>> ELSE <<b, a>>
         IN  IF key \in DOMAIN table THEN table[key] ELSE 0

\* def dist(a, b)
Dist(table, a, b) ==
    IF a = b THEN 0
    ELSE LET key == IF a < b THEN <<a, b>> ELSE <<b, a>>
         IN  IF key \in DOMAIN table THEN table[key] ELSE None

Within_LongerLeg(d_ac, d_cb, d_ab, eps) ==
    100 * Max2(d_ac, d_cb) <= d_ab * (100 + eps)

Within_NoTolerance(d_ac, d_cb, d_ab, eps) == d_ac + d_cb <= d_ab

Within_Minus(d_ac, d_cb, d_ab, eps) ==
    100 * (d_ac + d_cb) <= d_ab * (100 - eps)

\* d_ac + d_cb <= d_ab * (1.0 + epsilon), epsilon in percent
Within(d_ac, d_cb, d_ab, eps) ==
    100 * (d_ac + d_cb) <= d_ab * (100 + eps)

\* for c in huts: ... to_remove.add((a, b)); break
HasDetour(table, key, eps) ==
    \E c \in HutsOf(table) :
        /\ c # key[1]
        /\ c # key[2]
        /\ Dist(table, key[1], c) # None
        /\ Dist(table, c, key[2]) # None
        /\ Within(Dist(table, key[1], c), Dist(table, c, key[2]),
                  table[key], eps)

\* the pairs the loop over pairs_items marks on a table
Marked(table, eps) == {k \in DOMAIN table : HasDetour(table, k, eps)}

\* for key in to_remove: if key in best_dist_for_pair: del ...
Remaining(table, rm) == [k \in DOMAIN table \ rm |-> table[k]]

EdgesOf_Swapped(table) == {<<k[2], k[1], table[k]>> : k \in DOMAIN table}

\* for (a, b), d_km in best_dist_for_pair.items(): edges.append((a, b, d_km))
EdgesOf(table) == {<<k[1], k[2], table[k]>> : k \in DOMAIN table}

\* ------------------------------------------------------------ the pipeline
Unanchored_WithAnchor(ids, abh) == SortedSeq(ids \cap DOMAIN abh)

\* unanchored = sorted(hut_ids - anchor_by_hut.keys())
Unanchored(ids, abh) == SortedSeq(ids \ DOMAIN abh)

\* nothing is written yet
NoCsv == huts_csv = <<>> /\ edges_csv = {}

\* build_graph is not looked at
NoBuild ==
    /\ nodes = Nothing
    /\ ways = <<>>
    /\ way_i = 0
    /\ seg_i = 0
    /\ inserted = <<>>

\* compute_hut_anchors is not looked at
NoAnchoring ==
    /\ cells = Nothing
    /\ max_radius_m = 0
    /\ hut_ids_list = <<>>
    /\ hut_i = 0
    /\ no_anchor = 0

\* main once the graph is built: the huts, their anchors, and build_hut_graph
\* up to its first search
Loaded ==
    /\ hut_ids \in SUBSET HutIds
    /\ \E off \in [hut_ids \ DOMAIN graph -> DOMAIN graph \cup {NoAnchor}] :
          anchor_by_hut =
              [h \in (hut_ids \cap DOMAIN graph)
                     \cup {x \in DOMAIN off : off[x] # NoAnchor} |->
                  IF h \in DOMAIN graph THEN h ELSE off[h]]
    /\ unanchored = Unanchored(hut_ids, anchor_by_hut)
    /\ NoCsv
    /\ NoBuild
    /\ NoAnchoring
    /\ huts_by_anchor = HutsByAnchor(anchor_by_hut)
    /\ max_distance_km = MaxSearchKm
    /\ hut_ids_with_anchor = SortedSeq(DOMAIN anchor_by_hut)
    /\ idx = 0
    /\ dist_dict = Nothing
    /\ heap = {}
    /\ best_dist_for_pair = Nothing
    /\ epsilon = DefaultEpsilonPct
    /\ pairs_items = {}
    /\ to_remove = {}
    /\ edges = {}
    /\ pc = "for"
    /\ raw = Nothing
    /\ passes = 0
    /\ dropped = {}
    /\ candidates = {}
    /\ pred = Nothing
    /\ route = Nothing
    /\ last = NoStep
    /\ expansions = Nothing
    /\ huts = <<>>
    /\ workers = Nothing

\* main: the trail graph of build_graph, the anchors of compute_hut_anchors
\* (a hut that is a node of the graph is its own anchor, any other hut is
\* anchored to some node of the graph or to none), then build_hut_graph
\* up to its first search
Init ==
    /\ \E len \in [Segments -> 0..MaxWeightKm] : graph = AdjacencyOf(len)
    /\ Loaded

\* for idx, hut_source in enumerate(hut_ids_with_anchor, start=1):
\*     dist_dict = {anchor_src: 0.0}; heap = [(0.0, anchor_src)]
NextSource ==
    /\ pc = "for"
    /\ idx < Len(hut_ids_with_anchor)
    /\ idx' = idx + 1
    /\ LET a == anchor_by_hut[hut_ids_with_anchor[idx + 1]]
       IN  /\ dist_dict' = Put(Nothing, a, 0)
           /\ heap' = {<<0, a>>}
    /\ pred' = Nothing
    /\ expansions' = Nothing
    /\ pc' = "while"
    /\ last' = [NoStep EXCEPT !.branch = "source",
                              !.src = hut_ids_with_anchor[idx + 1]]
    /\ UNCHANGED <<inputs, frame, dropped, best_dist_for_pair, epsilon, pairs_items,
                   to_remove, edges, raw, passes, candidates, route>>

\* one iteration of "while heap:"
Pop ==
    /\ pc = "while"
    /\ heap # {}
    /\ LET e == HeapMin(heap)
           d == e[1]
           node == e[2]
           rest == heap \ {e}
           live == d <= max_distance_m /\ ~IsStale(d, node, dist_dict)
           step == [NoStep EXCEPT !.src = hut_source, !.node = node,
                                  !.d = d, !.live = live]
       IN  IF d > max_distance_m
           THEN \* break; entries are pushed with nd <= max_distance_m only
                /\ pc' = "for"
                /\ heap' = rest
                /\ last' = [step EXCEPT !.branch = "break"]
                /\ UNCHANGED <<dist_dict, pred, best_dist_for_pair,
                               candidates, route, expansions, graph,
                               huts_by_anchor>>
           ELSE IF IsStale(d, node, dist_dict)
           THEN \* continue
                /\ pc' = "while"
                /\ heap' = rest
                /\ last' = [step EXCEPT !.branch = "stale"]
                /\ UNCHANGED <<dist_dict, pred, best_dist_for_pair,
                               candidates, route, expansions, graph,
                               huts_by_anchor>>
           ELSE LET tgts == Targets(node, hut_source, anchor_src,
                                    huts_by_anchor)
                    d_km == ToKm(d)
                    written == {k \in {PairKey(hut_source, t) : t \in tgts} :
                                   Improves(best_dist_for_pair, k, d_km)}
                    rec == {<<hut_source, PairKey(hut_source, t), d_km>> :
                               t \in tgts}
                    path == PathTo(pred, dist_dict, node)
                    st == IF StopsAt(node, anchor_src, huts_by_anchor)
                          THEN [dist |-> dist_dict, heap |-> rest,
                                pred |-> pred]
                          ELSE Relax(AdjGet(graph, node), d, node,
                                     max_distance_m,
                                     [dist |-> dist_dict, heap |-> rest,
                                      pred |-> pred])
                IN  /\ pc' = "while"
                    /\ best_dist_for_pair' =
                           RecordAll(best_dist_for_pair, hut_source, tgts, d_km)
                    /\ candidates' = candidates \cup rec
                    /\ route' = [k \in DOMAIN route \cup written |->
                                    IF k \in written THEN path ELSE route[k]]
                    /\ dist_dict' = st.dist
                    /\ heap' = st.heap
                    /\ pred' = st.pred
                    /\ expansions' =
                           IF StopsAt(node, anchor_src, huts_by_anchor)
                           THEN expansions
                           ELSE Put(expansions, node,
                                    1 + IF node \in DOMAIN expansions
                                        THEN expansions[node] ELSE 0)
                    /\ last' = [step EXCEPT
                                  !.branch = IF StopsAt(node, anchor_src,
                                                        huts_by_anchor)
                                             THEN "anchor" ELSE "expand",
                                  !.pushed = st.heap \ rest,
                                  !.recorded = rec]
                    \* "node in huts_by_anchor", then huts_by_anchor[node]
                    \* or graph.get(node, [])
                    /\ huts_by_anchor' =
                           IF StopsAt(node, anchor_src, huts_by_anchor)
                           THEN AfterItem(AfterIn(huts_by_anchor, node), node)
                           ELSE AfterIn(huts_by_anchor, node)
                    /\ graph' =
                           IF StopsAt(node, anchor_src, huts_by_anchor)
                           THEN graph
                           ELSE AfterGet(graph, node)
    /\ UNCHANGED <<anchor_by_hut, max_distance_km, hut_ids_with_anchor, frame,
                   dropped, idx, epsilon, pairs_items, to_remove, edges,
                   raw, passes>>

\* "while heap:" with an empty heap: on to the next source
HeapEmpty ==
    /\ pc = "while"
    /\ heap = {}
    /\ pc' = "for"
    /\ last' = [NoStep EXCEPT !.branch = "exhausted", !.src = hut_source]
    /\ UNCHANGED <<inputs, frame, expansions, dropped, idx, dist_dict, heap, best_dist_for_pair,
                   epsilon,
                   pairs_items, to_remove, edges, raw, passes, candidates,
                   pred, route>>

\* prune_redundant_edges(best_dist_for_pair, epsilon=0.05) is entered:
\* to_remove = set(); pairs_items = list(best_dist_for_pair.items())
EnterPrune ==
    /\ pc = "for"
    /\ idx = Len(hut_ids_with_anchor)
    /\ pc' = "prune"
    /\ epsilon' = DefaultEpsilonPct
    /\ pairs_items' = DOMAIN best_dist_for_pair
    /\ to_remove' = {}
    /\ raw' = best_dist_for_pair
    /\ passes' = passes + 1
    /\ last' = [NoStep EXCEPT !.branch = "enter_prune"]
    /\ UNCHANGED <<inputs, frame, expansions, dropped, idx, dist_dict, heap, best_dist_for_pair,
                   edges,
                   candidates, pred, route>>

\* one iteration of "for (a, b), d_ab in pairs_items:"; the list has the
\* order of the insertions into the dict, any order is taken here
PruneVisit ==
    /\ pc = "prune"
    /\ \E key \in pairs_items :
         /\ pairs_items' = pairs_items \ {key}
         /\ to_remove' =
               IF key \in to_remove THEN to_remove
               ELSE IF HasDetour(best_dist_for_pair, key, epsilon)
                    THEN to_remove \cup {key}
                    ELSE to_remove
    /\ last' = [NoStep EXCEPT !.branch = "visit"]
    /\ UNCHANGED <<inputs, frame, expansions, dropped, idx, dist_dict, heap, best_dist_for_pair,
                   epsilon,
                   edges, pc, raw, passes, candidates, pred, route>>

\* for key in to_remove: del best_dist_for_pair[key]; the function returns
PruneDelete ==
    /\ pc = "prune"
    /\ pairs_items = {}
    /\ best_dist_for_pair' = Remaining(best_dist_for_pair, to_remove)
    /\ pc' = "pruned"
    /\ dropped' = dropped \cup to_remove
    /\ last' = [NoStep EXCEPT !.branch = "delete"]
    /\ UNCHANGED <<inputs, frame, expansions, idx, dist_dict, heap, epsilon, pairs_items,
                   to_remove, edges, raw, passes, candidates, pred, route>>

\* edges = [(a, b, d_km) for ...]; return hut_ids_with_anchor, edges
Emit ==
    /\ pc = "pruned"
    /\ edges' = EdgesOf(best_dist_for_pair)
    /\ pc' = "done"
    /\ last' = [NoStep EXCEPT !.branch = "emit"]
    /\ UNCHANGED <<inputs, frame, expansions, dropped, idx, dist_dict, heap, best_dist_for_pair,
                   epsilon,
                   pairs_items, to_remove, raw, passes, candidates, pred,
                   route>>

\* write_hut_csv: a row per hut of sorted(hut_ids), a row per edge
WriteCsv ==
    /\ pc = "done"
    /\ huts_csv' = SortedSeq(hut_ids)
    /\ edges_csv' = edges
    /\ pc' = "written"
    /\ last' = [NoStep EXCEPT !.branch = "write"]
    /\ UNCHANGED <<inputs, hut_ids, unanchored, buildVars, anchorVars, huts, workers,
                   expansions, dropped, idx, dist_dict, heap,
                   best_dist_for_pair, epsilon, pairs_items, to_remove,
                   edges, raw, passes, candidates, pred, route>>

Next ==
    \/ NextSource
    \/ Pop
    \/ HeapEmpty
    \/ EnterPrune
    \/ PruneVisit
    \/ PruneDelete
    \/ Emit
    \/ WriteCsv

Spec == Init /\ [][Next]_vars

\* main with every segment of Segments in the graph, 0 .. MaxWeightKm
\* kilometres long (0: its two nodes are at the same place), and the huts
\* 1, a node of the trail, and 5, anchored to node 4 or to none
TermInit ==
    /\ \E len \in [Segments -> 0..MaxWeightKm] : graph = AllSegments(len)
    /\ hut_ids = {1, 5}
    /\ Loaded
    /\ 5 \in DOMAIN anchor_by_hut => anchor_by_hut[5] = 4

\* the program is sequential and nothing stops it: a step that can be taken
\* is taken
TermSpec == TermInit /\ [][Next]_vars /\ WF_vars(Next)

\* ------------------------------------- prune_redundant_edges on any table
\* every table over the hut pairs with distances of PruneDistances and
\* every tolerance of PruneEpsilons, at the entry of prune_redundant_edges
PruneInit ==
    \E keys \in SUBSET {k \in HutIds \X HutIds : k[1] < k[2]} :
      \E table \in [keys -> PruneDistances], eps \in PruneEpsilons :
        /\ best_dist_for_pair = table
        /\ raw = table
        /\ epsilon = eps
        /\ pairs_items = keys
        /\ to_remove = {}
        /\ passes = 1
        /\ dropped = {}
        /\ pc = "prune"
        /\ edges = {}
        /\ graph = Nothing
        /\ anchor_by_hut = Nothing
        /\ huts_by_anchor = Nothing
        /\ max_distance_km = MaxSearchKm
        /\ hut_ids_with_anchor = <<>>
        /\ idx = 0
        /\ dist_dict = Nothing
        /\ heap = {}
        /\ candidates = {}
        /\ pred = Nothing
        /\ route = Nothing
        /\ last = NoStep
        /\ expansions = Nothing
        /\ huts = <<>>
        /\ workers = Nothing
        /\ hut_ids = {}
        /\ unanchored = <<>>
        /\ NoCsv
        /\ NoBuild
        /\ NoAnchoring

\* prune_redundant_edges is called again on the table it left
PruneAgain ==
    /\ pc = "pruned"
    /\ passes < MaxPasses
    /\ pc' = "prune"
    /\ pairs_items' = DOMAIN best_dist_for_pair
    /\ to_remove' = {}
    /\ raw' = best_dist_for_pair
    /\ passes' = passes + 1
    /\ last' = [NoStep EXCEPT !.branch = "enter_prune"]
    /\ UNCHANGED <<inputs, frame, expansions, dropped, idx, dist_dict, heap, best_dist_for_pair,
                   epsilon,
                   edges, candidates, pred, route>>

PruneNext ==
    \/ PruneVisit
    \/ PruneDelete
    \/ PruneAgain
    \/ Emit

PruneSpec == PruneInit /\ [][PruneNext]_vars

\* ------------------- prune_redundant_edges with the order of "for c in huts"
RECURSIVE InnerLoop_StopsAtMissingLeg(_, _, _, _, _)
InnerLoop_StopsAtMissingLeg(table, key, eps, order, i) ==
    IF i > Len(order) THEN FALSE
    ELSE LET c == order[i]
             d_ac == Dist(table, key[1], c)
             d_cb == Dist(table, c, key[2])
             next == InnerLoop_StopsAtMissingLeg(table, key, eps, order, i + 1)
         IN  IF c = key[1] \/ c = key[2] THEN next
             ELSE IF d_ac = None THEN FALSE
             ELSE IF d_cb = None THEN FALSE
             ELSE IF Within(d_ac, d_cb, table[key], eps) THEN TRUE
             ELSE next

\* "for c in huts:" from the i-th hut of the order on: TRUE when the loop
\* adds (a, b) to to_remove and breaks, FALSE when it runs out of huts
RECURSIVE InnerLoop(_, _, _, _, _)
InnerLoop(table, key, eps, order, i) ==
    IF i > Len(order) THEN FALSE
    ELSE LET c == order[i]
             d_ac == Dist(table, key[1], c)
             d_cb == Dist(table, c, key[2])
             next == InnerLoop(table, key, eps, order, i + 1)
         IN  IF c = key[1] \/ c = key[2] THEN next
             ELSE IF d_ac = None THEN next
             ELSE IF d_cb = None THEN next
             ELSE IF Within(d_ac, d_cb, table[key], eps) THEN TRUE
             ELSE next

\* every table over the hut pairs with distances of OrderDistances, at the
\* entry of prune_redundant_edges, the set huts yielding its members in any
\* order
OrderInit ==
    /\ \E keys \in SUBSET {k \in HutIds \X HutIds : k[1] < k[2]} :
          /\ best_dist_for_pair \in [keys -> OrderDistances]
          /\ pairs_items = keys
    /\ raw = best_dist_for_pair
    /\ huts \in Orders(HutsOf(best_dist_for_pair))
    /\ workers = Nothing
    /\ epsilon \in {0, DefaultEpsilonPct}
    /\ to_remove = {}
    /\ passes = 1
    /\ dropped = {}
    /\ pc = "prune"
    /\ edges = {}
    /\ graph = Nothing
    /\ anchor_by_hut = Nothing
    /\ huts_by_anchor = Nothing
    /\ max_distance_km = MaxSearchKm
    /\ hut_ids_with_anchor = <<>>
    /\ idx = 0
    /\ dist_dict = Nothing
    /\ heap = {}
    /\ candidates = {}
    /\ pred = Nothing
    /\ route = Nothing
    /\ last = NoStep
    /\ expansions = Nothing
    /\ hut_ids = {}
    /\ unanchored = <<>>
    /\ NoCsv
    /\ NoBuild
    /\ NoAnchoring

\* one iteration of "for (a, b), d_ab in pairs_items:", the huts tried in
\* the order of huts; the pairs are taken in any order
OrderedVisit ==
    /\ pc = "prune"
    /\ \E key \in pairs_items :
         /\ pairs_items' = pairs_items \ {key}
         /\ to_remove' =
               IF key \in to_remove THEN to_remove
               ELSE IF InnerLoop(best_dist_for_pair, key, epsilon, huts, 1)
                    THEN to_remove \cup {key}
                    ELSE to_remove
    /\ last' = [NoStep EXCEPT !.branch = "visit"]
    /\ UNCHANGED <<inputs, frame, expansions, dropped, idx, dist_dict, heap,
                   best_dist_for_pair, epsilon, edges, pc, raw, passes,
                   candidates, pred, route>>

OrderNext ==
    \/ OrderedVisit
    \/ PruneDelete
    \/ Emit

OrderSpec == OrderInit /\ [][OrderNext]_vars

\* --------------------------------------------------------------- geometry
\* Coordinates are whole hundredths of a degree around latitude 0 and
\* longitude 0, where the sphere is flat to within a metre over the spans
\* used: a hundredth of a degree is R * radians(0.01) = 1112 m both ways.
\* Floating-point rounding is not modelled.

\* the largest r of lo..hi with r * r <= n
RECURSIVE Root(_, _, _)
Root(n, lo, hi) ==
    IF lo = hi THEN lo
    ELSE LET mid == (lo + hi + 1) \div 2
         IN  IF mid * mid <= n THEN Root(n, mid, hi) ELSE Root(n, lo, mid - 1)

\* haversine(lat1, lon1, lat2, lon2), in whole metres
haversine(lat1, lon1, lat2, lon2) ==
    LET sq == (lat2 - lat1) * (lat2 - lat1) + (lon2 - lon1) * (lon2 - lon1)
    IN  Root(sq * MetresPerUnit * MetresPerUnit, 0, MaxMetres)

\* the distance between two nodes of the coordinate map
Metres(nd, u, v) == haversine(nd[u][1], nd[u][2], nd[v][1], nd[v][2])

\* ------------------------------------------------------------ build_graph
Insert_OneWay(g, n1, n2, d) == Put(g, n1, Append(AdjGet(g, n1), <<n2, d>>))

\* graph[n1].append((n2, dist)); graph[n2].append((n1, dist))
Insert(g, n1, n2, d) ==
    LET g1 == Put(g, n1, Append(AdjGet(g, n1), <<n2, d>>))
    IN  Put(g1, n2, Append(AdjGet(g1, n2), <<n1, d>>))

Segment_EitherKnown(g, nd, node_ids, i) ==
    LET n1 == node_ids[i]
        n2 == node_ids[i + 1]
    IN  IF n1 \notin DOMAIN nd /\ n2 \notin DOMAIN nd
        THEN g
        ELSE Insert(g, n1, n2, IF {n1, n2} \subseteq DOMAIN nd
                               THEN Metres(nd, n1, n2) ELSE 0)

\* the body of "for i in range(len(node_ids) - 1):" for the segment from
\* node_ids[i] to node_ids[i + 1] (i counts from 1 here)
Segment(g, nd, node_ids, i) ==
    LET n1 == node_ids[i]
        n2 == node_ids[i + 1]
    IN  IF n1 \notin DOMAIN nd \/ n2 \notin DOMAIN nd
        THEN g
        ELSE Insert(g, n1, n2, Metres(nd, n1, n2))

\* the segments of a way from the i-th on
RECURSIVE Way(_, _, _, _)
Way(g, nd, node_ids, i) ==
    IF i >= Len(node_ids) THEN g
    ELSE Way(Segment(g, nd, node_ids, i), nd, node_ids, i + 1)

\* build_graph(nodes, ways_by_id), the ways from the k-th on
RECURSIVE build_graph(_, _, _, _)
build_graph(g, nd, ws, k) ==
    IF k > Len(ws) THEN g
    ELSE build_graph(Way(g, nd, ws[k], 1), nd, ws, k + 1)

\* main up to the call of build_graph: two ways of at most MaxWayLen node
\* ids each; node 3 may be missing from the coordinate map
BuildInit ==
    /\ nodes \in {[n \in dom |-> Places[n]] : dom \in {{1, 2}, {1, 2, 3}}}
    /\ ways \in [WayIds -> UNION {[1..n -> WayNodes] : n \in 0..MaxWayLen}]
    /\ graph = Nothing
    /\ way_i = 1
    /\ seg_i = 1
    /\ inserted = <<>>
    /\ pc = "build"
    /\ hut_ids = {}
    /\ unanchored = <<>>
    /\ anchor_by_hut = Nothing
    /\ huts_by_anchor = Nothing
    /\ NoCsv
    /\ NoAnchoring
    /\ NoSearch

\* one iteration of "for i in range(len(node_ids) - 1):"
BuildSegment ==
    /\ pc = "build"
    /\ way_i <= Len(ways)
    /\ Len(ways[way_i]) >= 2
    /\ seg_i <= Len(ways[way_i]) - 1
    /\ graph' = Segment(graph, nodes, ways[way_i], seg_i)
    /\ inserted' = IF graph' = graph THEN inserted
                   ELSE Append(inserted, <<way_i, seg_i>>)
    /\ seg_i' = seg_i + 1
    /\ last' = [NoStep EXCEPT !.branch = IF graph' = graph THEN "skip"
                                         ELSE "insert"]
    /\ UNCHANGED <<anchor_by_hut, huts_by_anchor, pc, mainVars, nodes, ways,
                   way_i, anchorVars, searchVars>>

\* the next way: the way has fewer than two nodes (continue) or its
\* segments are done
NextWay ==
    /\ pc = "build"
    /\ way_i <= Len(ways)
    /\ Len(ways[way_i]) < 2 \/ seg_i > Len(ways[way_i]) - 1
    /\ way_i' = way_i + 1
    /\ seg_i' = 1
    /\ last' = [NoStep EXCEPT !.branch = IF Len(ways[way_i]) < 2
                                         THEN "short" ELSE "way_done"]
    /\ UNCHANGED <<graph, anchor_by_hut, huts_by_anchor, pc, mainVars, nodes,
                   ways, inserted, anchorVars, searchVars>>

\* return graph
BuildDone ==
    /\ pc = "build"
    /\ way_i > Len(ways)
    /\ pc' = "built"
    /\ last' = [NoStep EXCEPT !.branch = "built"]
    /\ UNCHANGED <<graph, anchor_by_hut, huts_by_anchor, mainVars, buildVars,
                   anchorVars, searchVars>>

BuildNext ==
    \/ BuildSegment
    \/ NextWay
    \/ BuildDone

BuildSpec == BuildInit /\ [][BuildNext]_vars

\* ---------------------------------------------------- compute_hut_anchors
\* int(x / cell_size_deg): int() drops the fraction, towards zero
CellIndex(x) ==
    IF x >= 0 THEN x \div CellSize ELSE 0 - ((0 - x) \div CellSize)

\* cells.get(key, [])
CellGet(cl, key) == IF key \in DOMAIN cl THEN cl[key] ELSE <<>>

\* for di in (-1, 0, 1): for dj in (-1, 0, 1): key = (i0 + di, j0 + dj),
\* the keys in the order of the two loops
BlockKeys(i0, j0) ==
    [k \in 1..9 |-> <<i0 + ((k - 1) \div 3) - 1, j0 + ((k - 1) % 3) - 1>>]

\* the node ids the three loops go through, in their order
RECURSIVE BlockNodes(_, _, _)
BlockNodes(cl, keys, k) ==
    IF k > Len(keys) THEN <<>>
    ELSE CellGet(cl, keys[k]) \o BlockNodes(cl, keys, k + 1)

RECURSIVE Scan_FirstWithin(_, _, _, _)
Scan_FirstWithin(list, nd, p, best) ==
    IF list = <<>> THEN best
    ELSE LET nid == Head(list)
             d == haversine(p[1], p[2], nd[nid][1], nd[nid][2])
         IN  Scan_FirstWithin(Tail(list), nd, p,
                              IF best.node = NoAnchor /\ d < best.dist
                              THEN [dist |-> d, node |-> nid] ELSE best)

\* if d < best_dist: best_dist = d; best_node = nid, over the list
RECURSIVE Scan(_, _, _, _)
Scan(list, nd, p, best) ==
    IF list = <<>> THEN best
    ELSE LET nid == Head(list)
             d == haversine(p[1], p[2], nd[nid][1], nd[nid][2])
         IN  Scan(Tail(list), nd, p,
                  IF d < best.dist THEN [dist |-> d, node |-> nid] ELSE best)

\* what the function returns once the loops are over
Verdict(best, radius) ==
    IF best.node # NoAnchor /\ best.dist <= radius THEN best.node ELSE NoAnchor

FindNearest_NoShortcut(h, nd, g, cl, radius) ==
    LET p == nd[h]
        list == BlockNodes(cl, BlockKeys(CellIndex(p[1]), CellIndex(p[2])), 1)
    IN  Verdict(Scan(list, nd, p, [dist |-> radius + 1, node |-> NoAnchor]),
                radius)

\* find_nearest_graph_node_for_hut; NoAnchor stands for None
FindNearest(h, nd, g, cl, radius) ==
    IF h \in DOMAIN g THEN h
    ELSE LET p == nd[h]
             list == BlockNodes(cl, BlockKeys(CellIndex(p[1]),
                                              CellIndex(p[2])), 1)
         IN  Verdict(Scan(list, nd, p,
                          [dist |-> radius + 1, node |-> NoAnchor]), radius)

\* the nodes that are in a list of cells
Indexed(cl) == UNION {{cl[key][i] : i \in DOMAIN cl[key]} : key \in DOMAIN cl}

\* main up to the call of compute_hut_anchors: the trail is one way through
\* two or three nodes, the huts are nodes of the trail or not, every node
\* and hut is at one of Positions, and any radius of Radii is passed
AnchorInit ==
    /\ \E keys \in {s \in SUBSET IndexedNodes : Cardinality(s) >= 2} :
         /\ hut_ids \in SUBSET LocatedHuts \ {{}}
         /\ nodes \in [keys \cup hut_ids -> Positions]
         /\ ways = <<SortedSeq(keys)>>
    /\ graph = build_graph(Nothing, nodes, ways, 1)
    /\ max_radius_m \in Radii
    /\ cells = Nothing
    /\ hut_ids_list = <<>>
    /\ hut_i = 0
    /\ no_anchor = 0
    /\ anchor_by_hut = Nothing
    /\ huts_by_anchor = Nothing
    /\ unanchored = <<>>
    /\ way_i = 0
    /\ seg_i = 0
    /\ inserted = <<>>
    /\ pc = "index"
    /\ NoCsv
    /\ NoSearch

\* build_spatial_index, one iteration of "for node_id in graph.keys():";
\* the order of the keys is that of the dict, any order is taken here
IndexNode ==
    /\ pc = "index"
    /\ \E node_id \in DOMAIN graph \ Indexed(cells) :
         LET key == <<CellIndex(nodes[node_id][1]),
                      CellIndex(nodes[node_id][2])>>
         IN  cells' = Put(cells, key, Append(CellGet(cells, key), node_id))
    /\ last' = [NoStep EXCEPT !.branch = "index"]
    /\ UNCHANGED <<graph, anchor_by_hut, huts_by_anchor, pc, mainVars,
                   buildVars, max_radius_m, hut_ids_list, hut_i, no_anchor,
                   searchVars>>

\* the index is built: hut_ids_list = list(hut_ids), in the order the set
\* yields its members
StartAnchoring ==
    /\ pc = "index"
    /\ DOMAIN graph \subseteq Indexed(cells)
    /\ hut_ids_list' \in Orders(hut_ids)
    /\ pc' = "anchor"
    /\ last' = [NoStep EXCEPT !.branch = "list"]
    /\ UNCHANGED <<graph, anchor_by_hut, huts_by_anchor, mainVars, buildVars,
                   cells, max_radius_m, hut_i, no_anchor, searchVars>>

\* one iteration of "for idx, hut_id in enumerate(hut_ids_list, start=1):"
AnchorHut ==
    /\ pc = "anchor"
    /\ hut_i < Len(hut_ids_list)
    /\ hut_i' = hut_i + 1
    /\ LET hut_id == hut_ids_list[hut_i + 1]
           anchor == FindNearest(hut_id, nodes, graph, cells, max_radius_m)
       IN  IF anchor = NoAnchor
           THEN /\ no_anchor' = no_anchor + 1
                /\ UNCHANGED <<anchor_by_hut, huts_by_anchor>>
           ELSE /\ anchor_by_hut' = Put(anchor_by_hut, hut_id, anchor)
                /\ huts_by_anchor' =
                      Put(huts_by_anchor, anchor,
                          (IF anchor \in DOMAIN huts_by_anchor
                           THEN huts_by_anchor[anchor] ELSE {}) \cup {hut_id})
                /\ UNCHANGED no_anchor
    /\ last' = [NoStep EXCEPT !.branch = "anchor",
                              !.src = hut_ids_list[hut_i + 1]]
    \* "if hut_id in graph:"
    /\ graph' = AfterIn(graph, hut_ids_list[hut_i + 1])
    /\ UNCHANGED <<pc, mainVars, buildVars, cells, max_radius_m,
                   hut_ids_list, searchVars>>

\* compute_hut_anchors returns and main lists the huts without anchor
AnchorsDone ==
    /\ pc = "anchor"
    /\ hut_i = Len(hut_ids_list)
    /\ pc' = "anchored"
    /\ unanchored' = Unanchored(hut_ids, anchor_by_hut)
    /\ last' = [NoStep EXCEPT !.branch = "anchored"]
    /\ UNCHANGED <<graph, anchor_by_hut, huts_by_anchor, hut_ids, huts_csv,
                   edges_csv, buildVars, anchorVars, searchVars>>

AnchorNext ==
    \/ IndexNode
    \/ StartAnchoring
    \/ AnchorHut
    \/ AnchorsDone

AnchorSpec == AnchorInit /\ [][AnchorNext]_vars

\* --------------------------------------- main from the anchoring to the CSV
\* MAX_DISTANCE_KM = 40.0
MAX_DISTANCE_KM == 40

\* main calls compute_hut_anchors with max_radius_m = 3_000.0
MainInit ==
    /\ AnchorInit
    /\ max_radius_m = DefaultRadius

\* main calls build_hut_graph(..., max_distance_km=MAX_DISTANCE_KM), which
\* sorts the anchored huts and starts with an empty table
EnterSearch ==
    /\ pc = "anchored"
    /\ max_distance_km' = MAX_DISTANCE_KM
    /\ hut_ids_with_anchor' = SortedSeq(DOMAIN anchor_by_hut)
    /\ best_dist_for_pair' = Nothing
    /\ pc' = "for"
    /\ last' = [NoStep EXCEPT !.branch = "search"]
    /\ UNCHANGED <<graph, anchor_by_hut, huts_by_anchor, frame, idx,
                   dist_dict, heap, epsilon, pairs_items, to_remove, edges,
                   raw, passes, dropped, candidates, pred, route, expansions>>

MainNext == AnchorNext \/ EnterSearch \/ Next

MainSpec == MainInit /\ [][MainNext]_vars

\* ------------------------------ build_hut_graph: the searches side by side
\* dist_dict = {anchor_src: 0.0}; heap = [(0.0, anchor_src)]
StartOf(a) ==
    [dist |-> Put(Nothing, a, 0), heap |-> {<<0, a>>}, pred |-> Nothing]

\* best_dist_for_pair[(a, b)] = d_km when old is None or d_km < old: one
\* read-compare-write of the table
KeepMin(table, key, d_km) ==
    IF Improves(table, key, d_km) THEN Put(table, key, d_km) ELSE table

RECURSIVE SearchLoop(_, _, _)
\* "while heap:" of the source src run from st = [dist, heap, pred] to its
\* end: the table it leaves
SearchLoop(src, st, table) ==
    IF st.heap = {} THEN table
    ELSE LET e == HeapMin(st.heap)
             d == e[1]
             node == e[2]
             popped == [st EXCEPT !.heap = st.heap \ {e}]
             asrc == anchor_by_hut[src]
         IN  IF d > max_distance_m THEN table
             ELSE IF IsStale(d, node, st.dist)
             THEN SearchLoop(src, popped, table)
             ELSE IF StopsAt(node, asrc, huts_by_anchor)
             THEN SearchLoop(src, popped,
                             RecordAll(table, src,
                                       Targets(node, src, asrc,
                                               huts_by_anchor),
                                       ToKm(d)))
             ELSE SearchLoop(src,
                             Relax(AdjGet(graph, node), d, node,
                                   max_distance_m, popped),
                             table)

RECURSIVE Sequential(_, _)
\* "for idx, hut_source in enumerate(...)" over the sources in the order
\* given, one search after the other
Sequential(order, table) ==
    IF order = <<>> THEN table
    ELSE Sequential(Tail(order),
                    SearchLoop(Head(order),
                               StartOf(anchor_by_hut[Head(order)]), table))

\* what the searches side by side leave alone
parFrame == <<anchor_by_hut, max_distance_km, hut_ids_with_anchor, mainVars,
              buildVars, anchorVars, huts, idx, dist_dict, heap, epsilon,
              pairs_items, to_remove, edges, raw, passes, dropped,
              candidates, pred, route, last, expansions>>

\* the huts whose search has begun and has not ended
Running == {h \in DOMAIN workers : ~workers[h].done}

\* main with the huts 1, 2 and 5 (5 is not a node of the trail graph) on a
\* trail graph of short and long segments, at
\* the entry of the loop over the sources
ParInit ==
    /\ \E len \in [Segments -> {1, MaxWeightKm}] : graph = AdjacencyOf(len)
    /\ hut_ids = {1, 2, 5}
    /\ Loaded

\* the body of the for loop up to "while heap:", for any source not begun
\* yet, whatever the other searches are doing
ParStart ==
    /\ pc = "for"
    /\ \E h \in DOMAIN anchor_by_hut \ DOMAIN workers :
          LET st == StartOf(anchor_by_hut[h])
          IN  workers' = Put(workers, h,
                             [dist |-> st.dist, heap |-> st.heap,
                              todo |-> {}, done |-> FALSE,
                              overlapped |-> Running # {}])
    /\ UNCHANGED <<parFrame, graph, huts_by_anchor, best_dist_for_pair, pc>>

\* one iteration of "while heap:" of the search of the hut h, whose state
\* is w: the state it leaves, with its writes to the table left in todo, and
\* the two dicts it looked nodes up in
SearchStep(w, h, asrc) ==
    LET same == [worker |-> w, hba |-> huts_by_anchor, graph |-> graph]
    IN  IF w.heap = {}
        THEN [same EXCEPT !.worker.done = TRUE]
        ELSE LET e == HeapMin(w.heap)
                 d == e[1]
                 node == e[2]
                 rest == w.heap \ {e}
             IN  IF d > max_distance_m
                 THEN [same EXCEPT !.worker.done = TRUE]
                 ELSE IF IsStale(d, node, w.dist)
                 THEN [same EXCEPT !.worker.heap = rest]
                 ELSE IF StopsAt(node, asrc, huts_by_anchor)
                 THEN [same EXCEPT
                         !.worker.heap = rest,
                         !.worker.todo =
                             {<<PairKey(h, t), ToKm(d)>> :
                                t \in Targets(node, h, asrc, huts_by_anchor)},
                         !.hba = AfterItem(AfterIn(huts_by_anchor, node),
                                           node)]
                 ELSE LET st == Relax(AdjGet(graph, node), d, node,
                                      max_distance_m,
                                      [dist |-> w.dist, heap |-> rest,
                                       pred |-> Nothing])
                      IN  [same EXCEPT
                             !.worker.dist = st.dist,
                             !.worker.heap = st.heap,
                             !.hba = AfterIn(huts_by_anchor, node),
                             !.graph = AfterGet(graph, node)]

\* a step of any search that has no write to the table left to do
ParPop ==
    /\ pc = "for"
    /\ \E h \in Running :
          /\ workers[h].todo = {}
          /\ LET r == SearchStep(workers[h], h, anchor_by_hut[h])
             IN  /\ workers' = [workers EXCEPT ![h] = r.worker]
                 /\ huts_by_anchor' = r.hba
                 /\ graph' = r.graph
    /\ UNCHANGED <<parFrame, best_dist_for_pair, pc>>

\* one write of one search to the shared table: old = ....get((a, b)) and
\* the assignment in one step
ParWrite ==
    /\ pc = "for"
    /\ \E h \in Running : \E item \in workers[h].todo :
          /\ best_dist_for_pair' =
                 KeepMin(best_dist_for_pair, item[1], item[2])
          /\ workers' = [workers EXCEPT ![h].todo = @ \ {item}]
    /\ UNCHANGED <<parFrame, graph, huts_by_anchor, pc>>

\* every search has ended: the table is handed to prune_redundant_edges
ParJoin ==
    /\ pc = "for"
    /\ DOMAIN workers = DOMAIN anchor_by_hut
    /\ Running = {}
    /\ pc' = "joined"
    /\ UNCHANGED <<parFrame, graph, huts_by_anchor, best_dist_for_pair,
                   workers>>

ParNext == ParStart \/ ParPop \/ ParWrite \/ ParJoin

ParSpec == ParInit /\ [][ParNext]_vars

\* ------------------------------------------------------------------ claims
\* all searches have run and prune_redundant_edges is not yet entered
SearchesDone == pc = "for" /\ idx = Len(hut_ids_with_anchor)

AnchoredHuts == DOMAIN anchor_by_hut
AnchorNodes == {anchor_by_hut[h] : h \in AnchoredHuts}

\* the weight of the trail edge from u to v, None when there is none
Weight(u, v) ==
    IF u \in DOMAIN graph /\ \E i \in 1..Len(graph[u]) : graph[u][i][1] = v
    THEN graph[u][CHOOSE i \in 1..Len(graph[u]) : graph[u][i][1] = v][2]
    ELSE None

RECURSIVE PathLength(_)
PathLength(p) ==
    IF Len(p) < 2 THEN 0
    ELSE Weight(p[1], p[2]) + PathLength(Tail(p))

\* the paths of P and these paths continued by one node, a path being
\* continued only from its first node or from a node that anchors no hut,
\* and only to a node it has not visited
RECURSIVE Continued(_, _)
Continued(P, n) ==
    IF n = 0 THEN P
    ELSE Continued(
            P \cup {Append(p, v) : <<p, v>> \in
                      {x \in P \X TrailNodes :
                          /\ Weight(x[1][Len(x[1])], x[2]) # None
                          /\ \A i \in 1..Len(x[1]) : x[1][i] # x[2]
                          /\ Len(x[1]) = 1
                               \/ x[1][Len(x[1])] \notin AnchorNodes}},
            n - 1)

\* the paths between the anchors of A and B that visit no node twice, are
\* within the maximum search distance and have no anchor of any hut among
\* their interior nodes
DirectPaths(A, B) ==
    {p \in Continued({<<anchor_by_hut[A]>>}, Cardinality(TrailNodes) - 1) :
        /\ Len(p) >= 2
        /\ p[Len(p)] = anchor_by_hut[B]
        /\ PathLength(p) <= max_distance_m}

\* the graph N1 - N2 - N3 of one kilometre per hop with the huts H1 = N1,
\* H2 = N2, H3 = N3
Collinear ==
    /\ graph = AdjacencyOf([s \in Segments |->
                               IF s \in {<<1, 2>>, <<2, 3>>} THEN 1 ELSE 0])
    /\ anchor_by_hut = [h \in {1, 2, 3} |-> h]

\* C1: after the searches the raw table holds the pair {A,B} of two huts
\* with different anchors exactly when the trail graph has a path between
\* the two anchors that is within the maximum search distance and has no
\* hut anchor among its interior nodes, and the stored value is the length
\* of the shortest such path in km; on the collinear graph the table holds
\* H1-H2 and H2-H3 and not H1-H3.
C1_DirectDistances ==
    SearchesDone =>
        /\ \A A, B \in AnchoredHuts :
              (A < B /\ anchor_by_hut[A] # anchor_by_hut[B]) =>
                 LET good == DirectPaths(A, B) IN
                 /\ (<<A, B>> \in DOMAIN best_dist_for_pair) <=> (good # {})
                 /\ good # {} =>
                       best_dist_for_pair[<<A, B>>] * MetresPerKm
                           = SetMin({PathLength(p) : p \in good})
        /\ Collinear =>
              best_dist_for_pair = [k \in {<<1, 2>>, <<2, 3>>} |-> 1]

\* the searches on the collinear graph have left H1-H2 and H2-H3 only
C1_Witness ==
    /\ SearchesDone
    /\ Collinear
    /\ DOMAIN best_dist_for_pair = {<<1, 2>>, <<2, 3>>}

\* the huts other than s that are anchored to node n
OtherHutsAt(n, s) == {h \in AnchoredHuts : h # s /\ anchor_by_hut[h] = n}

\* the last iteration recorded a candidate edge between s and h at d metres
RecordedFor(s, h, d) ==
    \E r \in last.recorded :
        /\ r[1] = s
        /\ {r[2][1], r[2][2]} = {s, h}
        /\ r[3] * MetresPerKm = d
        /\ r[2] \in DOMAIN best_dist_for_pair
        /\ best_dist_for_pair[r[2]] <= r[3]

\* C2 as claimed: whenever a live entry is popped whose node anchors a hut
\* other than the source, the source's own anchor included, an edge to each
\* such hut is recorded at the popped distance and no neighbour is pushed.
C2_Original ==
    (last.live /\ OtherHutsAt(last.node, last.src) # {}) =>
        /\ last.pushed = {}
        /\ \A h \in OtherHutsAt(last.node, last.src) :
              RecordedFor(last.src, h, last.d)

\* C2 amended: the same for every popped node other than the source's own
\* anchor node; when the source's own anchor node is popped nothing is
\* recorded, also when other huts share that anchor.
C2_StopsAtOtherAnchors ==
    /\ (/\ last.live
        /\ last.node # anchor_by_hut[last.src]
        /\ OtherHutsAt(last.node, last.src) # {}) =>
           /\ last.pushed = {}
           /\ \A h \in OtherHutsAt(last.node, last.src) :
                 RecordedFor(last.src, h, last.d)
    /\ (last.live /\ last.node = anchor_by_hut[last.src]) =>
           last.recorded = {}

\* a node that anchors two other huts was popped, and it has a neighbour
\* the search had not reached and that is within the bound
C2_Witness ==
    /\ last.live
    /\ last.node # anchor_by_hut[last.src]
    /\ Cardinality(OtherHutsAt(last.node, last.src)) >= 2
    /\ \E n \in TrailNodes :
          /\ Weight(last.node, n) # None
          /\ n \notin DOMAIN dist_dict
          /\ last.d + Weight(last.node, n) <= max_distance_m

\* C3 as claimed: no node of the path behind a stored distance is the
\* anchor of a third hut reached at a smaller cumulative distance, also
\* when the third hut shares its anchor with one of the two huts.
C3_Original ==
    \A k \in DOMAIN best_dist_for_pair :
      \A i \in 1..Len(route[k]) :
        \A C \in AnchoredHuts \ {k[1], k[2]} :
            anchor_by_hut[C] = route[k][i][1] =>
                ~(route[k][i][2] < best_dist_for_pair[k] * MetresPerKm)

\* C3 amended: no node after the first node of the path behind a stored
\* distance (the first node is the anchor of the hut whose search stored
\* it) is the anchor of a third hut reached at a smaller cumulative
\* distance than the stored one.
C3_NoPassThrough ==
    \A k \in DOMAIN best_dist_for_pair :
      \A i \in 2..Len(route[k]) :
        \A C \in AnchoredHuts \ {k[1], k[2]} :
            anchor_by_hut[C] = route[k][i][1] =>
                ~(route[k][i][2] < best_dist_for_pair[k] * MetresPerKm)

\* a stored distance whose path has an interior node, while a third hut is
\* anchored to the last node of the path and another one elsewhere
C3_Witness ==
    \E k \in DOMAIN best_dist_for_pair :
        /\ Len(route[k]) >= 3
        /\ \E C \in AnchoredHuts \ {k[1], k[2]} :
              anchor_by_hut[C] = route[k][Len(route[k])][1]
        /\ \E C \in AnchoredHuts \ {k[1], k[2]} :
              anchor_by_hut[C] \notin {route[k][i][1] : i \in 1..Len(route[k])}

\* C4: no entry of the table and no emitted edge joins two huts that are
\* anchored to the same node.
C4_NoCoAnchoredEdge ==
    /\ \A k \in DOMAIN best_dist_for_pair :
          anchor_by_hut[k[1]] # anchor_by_hut[k[2]]
    /\ \A e \in edges : anchor_by_hut[e[1]] # anchor_by_hut[e[2]]

\* huts 2 and 5 share the anchor node 2, which lies on the cycle 2-3-4 of
\* nodes that anchor nothing, and both have an edge to hut 1
C4_Witness ==
    /\ pc = "done"
    /\ {2, 5} \subseteq AnchoredHuts
    /\ anchor_by_hut[2] = 2
    /\ anchor_by_hut[5] = 2
    /\ Weight(2, 3) # None /\ Weight(3, 4) # None /\ Weight(4, 2) # None
    /\ 3 \notin AnchorNodes /\ 4 \notin AnchorNodes
    /\ {<<1, 2>>, <<1, 5>>} \subseteq {<<e[1], e[2]>> : e \in edges}

\* C5: in every state no key of the table and no emitted edge joins a hut
\* to itself.
C5_NoSelfEdge ==
    /\ \A k \in DOMAIN best_dist_for_pair : k[1] # k[2]
    /\ \A k \in DOMAIN raw : k[1] # k[2]
    /\ \A e \in edges : e[1] # e[2]

\* the source shares its anchor with another hut and its search has just
\* recorded an edge at another anchor
C5_Witness ==
    /\ pc = "while"
    /\ last.branch = "anchor"
    /\ last.recorded # {}
    /\ OtherHutsAt(anchor_by_hut[last.src], last.src) # {}

\* the distances the searches recorded for the pair k
CandidatesOf(k) == {c[3] : c \in {x \in candidates : x[2] = k}}

\* C6: every key is stored as (smaller id, larger id), so a pair has one
\* entry whichever of its huts was the source; the value of an entry never
\* increases; after the searches it is the minimum of the distances
\* recorded for the pair.
C6_OneEntryPerPair ==
    /\ [](\A k \in DOMAIN best_dist_for_pair : k[1] < k[2])
    /\ [](\A c \in candidates :
             /\ c[1] \in {c[2][1], c[2][2]}
             /\ c[2] \in DOMAIN raw \cup DOMAIN best_dist_for_pair)
    /\ [][\A k \in DOMAIN best_dist_for_pair :
             k \in DOMAIN best_dist_for_pair' =>
                 best_dist_for_pair'[k] <= best_dist_for_pair[k]]_vars
    /\ [](SearchesDone =>
             \A k \in DOMAIN best_dist_for_pair :
                 /\ CandidatesOf(k) # {}
                 /\ best_dist_for_pair[k] = SetMin(CandidatesOf(k)))

\* a pair was recorded by the searches of both of its huts
C6_Witness ==
    /\ SearchesDone
    /\ \E c1, c2 \in candidates :
          /\ c1[2] = c2[2]
          /\ c1[1] # c2[1]
          /\ c1[2] \in DOMAIN best_dist_for_pair

\* prune_redundant_edges has returned
Pruned == pc \in {"pruned", "done"}

\* the table A-C = 10, C-B = 12, A-B = 21 with A = 1, C = 2, B = 3
LineTable == [k \in {<<1, 2>>, <<2, 3>>, <<1, 3>>} |->
                 IF k = <<1, 2>> THEN 10 ELSE IF k = <<2, 3>> THEN 12 ELSE 21]

\* the pair of the huts a and b as the table keys it
Pair(a, b) == IF a < b THEN <<a, b>> ELSE <<b, a>>

\* a hut C other than the two of k whose two legs are entries of the table
\* t and are together at most the length of k times (1 + eps percent)
TwoHop(t, k, eps) ==
    \E C \in HutIds \ {k[1], k[2]} :
        /\ Pair(k[1], C) \in DOMAIN t
        /\ Pair(C, k[2]) \in DOMAIN t
        /\ 100 * (t[Pair(k[1], C)] + t[Pair(C, k[2])]) <= t[k] * (100 + eps)

\* C7: prune_redundant_edges removes a pair exactly when a third hut has
\* both legs in the table it received and the legs are together at most
\* d(A,B) * (1 + epsilon); the table is not changed before every pair has
\* been evaluated; with epsilon = 0 the two legs must be at most d(A,B);
\* with 10, 12, 21 and epsilon = 0.05 the pair A-B is removed.
C7_PruneRule ==
    /\ pc = "prune" =>
          /\ best_dist_for_pair = raw
          /\ \A k \in to_remove : TwoHop(raw, k, epsilon)
    /\ Pruned =>
          \A k \in DOMAIN raw :
              (k \notin DOMAIN best_dist_for_pair) <=> TwoHop(raw, k, epsilon)
    /\ (Pruned /\ epsilon = 0) =>
          \A k \in DOMAIN raw :
              (k \notin DOMAIN best_dist_for_pair) <=>
                  \E C \in HutIds \ {k[1], k[2]} :
                      /\ Pair(k[1], C) \in DOMAIN raw
                      /\ Pair(C, k[2]) \in DOMAIN raw
                      /\ raw[Pair(k[1], C)] + raw[Pair(C, k[2])] <= raw[k]
    /\ (Pruned /\ raw = LineTable /\ epsilon = DefaultEpsilonPct) =>
          DOMAIN best_dist_for_pair = {<<1, 2>>, <<2, 3>>}

\* the table 10, 12, 21 was pruned with epsilon = 0.05 and lost A-B
C7_Witness ==
    /\ pc = "pruned"
    /\ passes = 1
    /\ raw = LineTable
    /\ epsilon = DefaultEpsilonPct
    /\ <<1, 3>> \notin DOMAIN best_dist_for_pair

\* C8: the pairs left by prune_redundant_edges are pairs of the table it
\* received, each with the distance it had, and the edges returned are
\* exactly the entries left.
C8_PruneOnlyRemoves ==
    /\ DOMAIN best_dist_for_pair \subseteq DOMAIN raw
    /\ \A k \in DOMAIN best_dist_for_pair : best_dist_for_pair[k] = raw[k]
    /\ pc = "done" =>
          /\ \A k \in DOMAIN best_dist_for_pair :
                <<k[1], k[2], best_dist_for_pair[k]>> \in edges
          /\ \A e \in edges :
                /\ <<e[1], e[2]>> \in DOMAIN best_dist_for_pair
                /\ e[3] = best_dist_for_pair[<<e[1], e[2]>>]

\* a pruning that removed a pair and left another, after which the edges
\* were returned
C8_Witness ==
    /\ pc = "done"
    /\ to_remove # {}
    /\ edges # {}

\* C9: a second application of prune_redundant_edges, to the table the
\* first one left, removes nothing.
C9_Idempotent ==
    (pc = "pruned" /\ passes >= 2) =>
        /\ to_remove = {}
        /\ best_dist_for_pair = raw

\* the first application removed a pair that was a leg of a two-hop route
\* around a pair that is left, and the second application is over
C9_Witness ==
    /\ pc = "pruned"
    /\ passes = 2
    /\ \E k \in DOMAIN best_dist_for_pair, g \in dropped :
          /\ Cardinality({k[1], k[2]} \cap {g[1], g[2]}) = 1
          /\ Pair(CHOOSE x \in {k[1], k[2]} \ {g[1], g[2]} : TRUE,
                  CHOOSE y \in {g[1], g[2]} \ {k[1], k[2]} : TRUE)
                 \in DOMAIN best_dist_for_pair

\* C10: with distances >= 0 the pairs removed with a tolerance are removed
\* with every larger tolerance: the pairs this run removed contain those
\* removed from the same table with any smaller tolerance and are among
\* those removed with any larger one.
C10_MonotoneInEpsilon ==
    pc = "pruned" =>
        \A e \in PruneEpsilons :
            /\ e <= epsilon => Marked(raw, e) \subseteq to_remove
            /\ epsilon <= e => to_remove \subseteq Marked(raw, e)

\* a run with tolerance 0.05 that removed pairs the tolerance 0 leaves, and
\* fewer than the tolerance 0.15 removes
C10_Witness ==
    /\ pc = "pruned"
    /\ epsilon = 5
    /\ Marked(raw, 0) # to_remove
    /\ Marked(raw, 15) # to_remove

\* ------------------------------------------------- huts without an anchor
\* the huts that are an end of a pair of the set
EndsOf(keys) == {k[1] : k \in keys} \cup {k[2] : k \in keys}

\* the members of a list
Members(list) == {list[i] : i \in DOMAIN list}

\* the huts that are an end of a raw or final edge, in the table, in the
\* returned list or in the rows of huts_edges.csv
LinkedHuts ==
    EndsOf(DOMAIN best_dist_for_pair) \cup EndsOf(DOMAIN raw)
        \cup EndsOf({<<e[1], e[2]>> : e \in edges})
        \cup EndsOf({<<e[1], e[2]>> : e \in edges_csv})
        \cup EndsOf({c[2] : c \in candidates})

\* C11: a hut without anchor is in the list main prints, is an end of no raw
\* and of no final edge, and has its row in huts.csv once the files are
\* written; both ends of every edge are huts with an anchor.
C11_UnanchoredKeptNotLinked ==
    /\ \A h \in hut_ids \ DOMAIN anchor_by_hut :
          /\ h \in Members(unanchored)
          /\ h \notin LinkedHuts
          /\ pc = "written" => h \in Members(huts_csv)
    /\ Members(unanchored) \cap DOMAIN anchor_by_hut = {}
    /\ LinkedHuts \subseteq hut_ids \cap DOMAIN anchor_by_hut

\* the files are written, with edges, and a hut has no anchor
C11_Witness ==
    /\ pc = "written"
    /\ edges_csv # {}
    /\ hut_ids \ DOMAIN anchor_by_hut # {}

\* ------------------------------------------------------------- anchoring
\* the huts compute_hut_anchors has gone through
Processed == {hut_ids_list[i] : i \in 1..hut_i}

\* the place of a node in the list of its cell
PlaceOf(n) ==
    LET list == cells[<<CellIndex(nodes[n][1]), CellIndex(nodes[n][2])>>]
    IN  CHOOSE i \in DOMAIN list : list[i] = n

\* C12: a hut whose id is a key of the adjacency map is anchored to itself,
\* at distance 0, and is in the reverse index under its own id, whatever the
\* radius and the content of the spatial index.
C12_TrailNodeHutIsItsOwnAnchor ==
    \A h \in Processed \cap DOMAIN graph :
        /\ h \in DOMAIN anchor_by_hut
        /\ anchor_by_hut[h] = h
        /\ Metres(nodes, h, anchor_by_hut[h]) = 0
        /\ h \in DOMAIN huts_by_anchor
        /\ h \in huts_by_anchor[h]

\* a hut that is a trail node is anchored with radius 0 while another trail
\* node lies at the same place and comes before it in the list of the cell
C12_Witness ==
    /\ pc = "anchored"
    /\ max_radius_m = 0
    /\ \E h \in hut_ids \cap DOMAIN graph, n \in DOMAIN graph :
          /\ n # h
          /\ nodes[n] = nodes[h]
          /\ PlaceOf(n) < PlaceOf(h)

\* the indexed nodes of the 3x3 block of cells centred on the cell of hut h
BlockOf(h) ==
    LET near(a, b) == a - b \in {0 - 1, 0, 1}
    IN  {n \in Indexed(cells) :
            /\ near(CellIndex(nodes[n][1]), CellIndex(nodes[h][1]))
            /\ near(CellIndex(nodes[n][2]), CellIndex(nodes[h][2]))}

\* the nodes of the block of h within the radius
WithinRadius(h) == {n \in BlockOf(h) : Metres(nodes, h, n) <= max_radius_m}

Count(list, entry) == Cardinality({i \in DOMAIN list : list[i] = entry})

\* C14: the trail graph is symmetric: (v, w) is in the list of u as many
\* times as (u, w) is in the list of v, and w is the distance between the
\* two nodes.
C14_SymmetricGraph ==
    /\ \A u \in DOMAIN graph : \A i \in DOMAIN graph[u] :
          Count(graph[u], graph[u][i])
             = Count(AdjGet(graph, graph[u][i][1]), <<u, graph[u][i][2]>>)
    /\ \A u \in DOMAIN graph : \A i \in DOMAIN graph[u] :
          /\ graph[u][i][1] \in DOMAIN graph
          /\ graph[u][i][2] = Metres(nodes, u, graph[u][i][1])

\* the graph is built and holds a segment twice, in each direction
C14_Witness ==
    /\ pc = "built"
    /\ \E u \in DOMAIN graph, v \in DOMAIN graph :
          /\ u # v
          /\ Count(graph[u], <<v, Metres(nodes, u, v)>>) = 2
          /\ Metres(nodes, u, v) > 0

\* the consecutive pairs <<way, i>> of the ways with at least two nodes
\* whose two ends are in the coordinate map
KnownSegments ==
    {s \in (DOMAIN ways) \X (1..MaxWayLen) :
        /\ s[2] <= Len(ways[s[1]]) - 1
        /\ ways[s[1]][s[2]] \in DOMAIN nodes
        /\ ways[s[1]][s[2] + 1] \in DOMAIN nodes}

\* the number of times the segments of the set lead from u to v or back
Joins(segs, u, v) ==
    LET from(a, b) == Cardinality({s \in segs :
                         /\ ways[s[1]][s[2]] = a
                         /\ ways[s[1]][s[2] + 1] = b})
    IN  from(u, v) + from(v, u)

\* C15: build_graph inserts an edge for exactly the consecutive pairs of the
\* ways with at least two nodes whose two ends are in the coordinate map,
\* each once and in the order of the ways; a segment with an unknown end
\* and a way with fewer than two nodes add nothing and stop nothing.
C15_ExactlyTheKnownSegments ==
    pc = "built" =>
        /\ {inserted[i] : i \in DOMAIN inserted} = KnownSegments
        /\ Len(inserted) = Cardinality(KnownSegments)
        /\ \A i \in DOMAIN inserted, j \in DOMAIN inserted :
              i < j => \/ inserted[i][1] < inserted[j][1]
                       \/ /\ inserted[i][1] = inserted[j][1]
                          /\ inserted[i][2] < inserted[j][2]
        /\ DOMAIN graph =
              {ways[s[1]][s[2]] : s \in KnownSegments}
                 \cup {ways[s[1]][s[2] + 1] : s \in KnownSegments}
        /\ \A u \in DOMAIN graph :
              /\ \A v \in DOMAIN nodes :
                    Count(graph[u], <<v, Metres(nodes, u, v)>>)
                       = Joins(KnownSegments, u, v)
              /\ \A i \in DOMAIN graph[u] : graph[u][i][1] \in DOMAIN nodes

\* the graph is built from a way with an unknown node between two known
\* segments and a way of fewer than two nodes before a way with a segment
C15_Witness ==
    /\ pc = "built"
    /\ \E k \in DOMAIN ways :
          /\ Len(ways[k]) = MaxWayLen
          /\ <<k, 1>> \notin KnownSegments
          /\ <<k, 2>> \in KnownSegments
    /\ Len(ways[1]) < 2
    /\ Len(inserted) >= 1

\* ---------------------------------------------------- the search is bounded
\* C16: no node is pushed with a cumulative distance above max_distance_m,
\* so every distance of the table, raw or final, is at most max_distance_km;
\* a hut whose nearest direct path is exactly max_distance_m long is still
\* recorded, at max_distance_km.
C16_SearchBounded ==
    /\ \A e \in heap \cup last.pushed : e[1] <= max_distance_m
    /\ \A n \in DOMAIN dist_dict : dist_dict[n] <= max_distance_m
    /\ \A k \in DOMAIN best_dist_for_pair :
          best_dist_for_pair[k] <= max_distance_km
    /\ \A k \in DOMAIN raw : raw[k] <= max_distance_km
    /\ \A c \in candidates : c[3] <= max_distance_km
    /\ \A e \in edges \cup edges_csv : e[3] <= max_distance_km
    /\ last.branch = "anchor" /\ last.d = max_distance_m =>
          \A t \in huts_by_anchor[last.node] :
             /\ Pair(last.src, t) \in DOMAIN best_dist_for_pair
             /\ best_dist_for_pair[Pair(last.src, t)] <= max_distance_km
    /\ SearchesDone =>
          \A A, B \in AnchoredHuts :
             (A < B /\ anchor_by_hut[A] # anchor_by_hut[B]) =>
                LET lengths == {PathLength(p) : p \in DirectPaths(A, B)}
                IN  (lengths # {} /\ SetMin(lengths) = max_distance_m) =>
                       /\ <<A, B>> \in DOMAIN best_dist_for_pair
                       /\ best_dist_for_pair[<<A, B>>] = max_distance_km

\* a search has recorded a hut reached at exactly max_distance_m and then
\* expanded a node with a neighbour beyond the bound
C16_Witness ==
    /\ last.branch = "expand"
    /\ \E i \in DOMAIN AdjGet(graph, last.node) :
          last.d + graph[last.node][i][2] > max_distance_m
    /\ \E c \in candidates : c[1] = last.src /\ c[3] = max_distance_km

\* ------------------------------------------------------ the spatial index
\* floor(x / cell_size_deg)
FloorIndex(x) == x \div CellSize

\* C17: the index puts a node into the cell (floor(lat / cell), floor(lon /
\* cell)) and a query takes the cell of the hut by the same flooring, also
\* for negative coordinates, so that all cells have the same width.
C17_FloorCells ==
    /\ \A key \in DOMAIN cells : \A i \in DOMAIN cells[key] :
          key = <<FloorIndex(nodes[cells[key][i]][1]),
                  FloorIndex(nodes[cells[key][i]][2])>>
    /\ \A h \in Processed :
          /\ CellIndex(nodes[h][1]) = FloorIndex(nodes[h][1])
          /\ CellIndex(nodes[h][2]) = FloorIndex(nodes[h][2])
    /\ \A key \in DOMAIN cells :
          Cardinality({x \in (0 - 4 * CellSize)..(4 * CellSize) :
                          CellIndex(x) = key[1]}) = CellSize

\* the nodes at latitudes -0.06 and -0.01 are indexed, in the rows -1 and 0
C17_Witness ==
    /\ \E i \in DOMAIN CellGet(cells, <<0 - 1, 0>>) :
          nodes[cells[<<0 - 1, 0>>][i]][1] = 0 - 6
    /\ \E i \in DOMAIN CellGet(cells, <<0, 0>>) :
          nodes[cells[<<0, 0>>][i]][1] = 0 - 1

\* ------------------------------------------------- the order of the pruning
\* the pairs of the received table the loop has gone through
Visited == DOMAIN raw \ pairs_items

\* C18: the pairs prune_redundant_edges removes do not depend on the order
\* in which the pairs are visited nor on the order in which the huts C are
\* tried: whatever the two orders, the pairs marked so far are the visited
\* pairs with a two-hop route within the tolerance in the received table,
\* and the table left is the received table without those pairs.
C18_OrderIndependent ==
    /\ to_remove = {k \in Visited : TwoHop(raw, k, epsilon)}
    /\ pc \in {"pruned", "done"} =>
          best_dist_for_pair =
             [k \in {x \in DOMAIN raw : ~TwoHop(raw, x, epsilon)} |-> raw[k]]

\* a pair was removed for the second hut tried after the first one had a
\* leg missing, the huts being tried in another order than the ascending one
C18_Witness ==
    /\ pc = "pruned"
    /\ huts # SortedSeq(HutsOf(raw))
    /\ \E k \in to_remove : \E i \in DOMAIN huts, j \in DOMAIN huts :
          /\ i < j
          /\ {huts[i], huts[j]} \cap {k[1], k[2]} = {}
          /\ Dist(raw, k[1], huts[i]) = None
          /\ Dist(raw, k[1], huts[j]) # None
          /\ Dist(raw, huts[j], k[2]) # None
          /\ Within(Dist(raw, k[1], huts[j]), Dist(raw, huts[j], k[2]),
                    raw[k], epsilon)

\* ------------------------------------------------ what the pruning leaves
\* the huts joined to the huts of S by pairs of the set, S included
RECURSIVE Reach(_, _)
Reach(keys, S) ==
    LET more == S \cup {k[2] : k \in {x \in keys : x[1] \in S}}
                  \cup {k[1] : k \in {x \in keys : x[2] \in S}}
    IN  IF more = S THEN S ELSE Reach(keys, more)

\* the pairs of the received table that are not in the table left
Removed == DOMAIN raw \ DOMAIN best_dist_for_pair

\* C19 as stated: the two huts of a removed pair are still joined by a path
\* of pairs that are left, and no hut of the received table is left without
\* a pair.
C19_Original ==
    pc \in {"pruned", "done"} =>
        /\ \A k \in Removed : k[2] \in Reach(DOMAIN best_dist_for_pair, {k[1]})
        /\ HutsOf(raw) = HutsOf(best_dist_for_pair)

\* C19 amended: a removed pair has a third hut with both legs in the table
\* received, together at most d(A,B) * (1 + epsilon); the legs may be removed
\* as well. With epsilon = 0 and distances > 0 the two huts stay joined by
\* pairs that are left and no hut loses all its pairs.
C19_RedundantInReceivedTable ==
    pc \in {"pruned", "done"} =>
        /\ \A k \in Removed :
              \E C \in HutsOf(raw) \ {k[1], k[2]} :
                 /\ {Pair(k[1], C), Pair(C, k[2])} \subseteq DOMAIN raw
                 /\ 100 * (raw[Pair(k[1], C)] + raw[Pair(C, k[2])])
                       <= raw[k] * (100 + epsilon)
        /\ epsilon = 0 =>
              /\ \A k \in Removed :
                    k[2] \in Reach(DOMAIN best_dist_for_pair, {k[1]})
              /\ HutsOf(raw) = HutsOf(best_dist_for_pair)

\* with epsilon = 0 two pairs are removed, each for a route over two pairs
\* that are left
C19_Witness ==
    /\ pc = "pruned"
    /\ epsilon = 0
    /\ Cardinality(Removed) >= 2
    /\ \A k \in Removed :
          \E C \in HutsOf(raw) \ {k[1], k[2]} :
             {Pair(k[1], C), Pair(C, k[2])} \subseteq DOMAIN best_dist_for_pair

\* ------------------------------------------------------------ termination
\* C20: every search ends, by an empty queue or by a popped distance above
\* max_distance_m, and so does build_hut_graph; within a search the
\* neighbours of a node are examined at most once, and an entry popped with
\* a distance other than the best known one of its node is skipped.
C20_SearchTerminates ==
    /\ [](\A n \in DOMAIN expansions : expansions[n] <= 1)
    /\ [](last.branch = "stale" =>
             /\ last.pushed = {}
             /\ last.recorded = {}
             /\ last.d # dist_dict[last.node])
    /\ [](last.branch \in {"expand", "anchor"} =>
             last.d = dist_dict[last.node])
    /\ [](last.branch = "exhausted" => heap = {})
    /\ [](last.branch = "break" => last.d > max_distance_m)
    /\ <>(pc = "written")

\* the second search skips a stale entry of a node reached over a segment
\* of length 0
C20_Witness ==
    /\ idx = 2
    /\ last.branch = "stale"
    /\ \E i \in DOMAIN graph[last.node] : graph[last.node][i][2] = 0

\* ------------------------------------------- the searches are independent
\* the searches have run side by side and at least one began while another
\* was running
Joined == pc = "joined"

\* C21: the raw edge table left by the searches is the same for every order
\* of the source huts and for every interleaving of the searches whose
\* writes to the table are atomic keep-the-minimum updates: it is the table
\* of the searches run one after the other in the sorted order
C21_SearchesIndependent ==
    Joined =>
        /\ best_dist_for_pair = Sequential(hut_ids_with_anchor, Nothing)
        /\ \A o \in Orders(DOMAIN anchor_by_hut) :
              Sequential(o, Nothing) = Sequential(hut_ids_with_anchor, Nothing)

\* three searches, one of them begun while another was running, that left
\* two edges of different lengths
C21_Witness ==
    /\ Joined
    /\ Cardinality(DOMAIN workers) = 3
    /\ \E h \in DOMAIN workers : workers[h].overlapped
    /\ \E j, k \in DOMAIN best_dist_for_pair :
          best_dist_for_pair[j] < best_dist_for_pair[k]

\* --------------------------------------------------- discovery is symmetric
\* the distances (km) the search from the hut s recorded for the pair of
\* the huts s and t
RecordedBy(s, t) ==
    {c[3] : c \in {x \in candidates : x[1] = s /\ x[2] = Pair(s, t)}}

\* C23: for every two anchored huts A and B, once every search has run, the
\* search from A recorded a candidate edge for {A, B} exactly when the
\* search from B recorded one, both recorded the same single distance, and
\* that distance is the value the table keeps
C23_SymmetricDiscovery ==
    SearchesDone =>
        \A A \in AnchoredHuts : \A B \in AnchoredHuts \ {A} :
            /\ RecordedBy(A, B) # {} <=> RecordedBy(B, A) # {}
            /\ RecordedBy(A, B) = RecordedBy(B, A)
            /\ Cardinality(RecordedBy(A, B)) <= 1
            /\ RecordedBy(A, B) # {} =>
                   /\ Pair(A, B) \in DOMAIN best_dist_for_pair
                   /\ RecordedBy(A, B) = {best_dist_for_pair[Pair(A, B)]}

\* every search has run; two huts found each other over more than one
\* segment, and two other anchored huts did not find each other
C23_Witness ==
    /\ SearchesDone
    /\ \E A \in AnchoredHuts : \E B \in AnchoredHuts \ {A} :
          /\ RecordedBy(A, B) # {}
          /\ RecordedBy(B, A) # {}
          /\ Weight(anchor_by_hut[A], anchor_by_hut[B]) = None
    /\ \E A \in AnchoredHuts : \E B \in AnchoredHuts \ {A} :
          /\ anchor_by_hut[A] # anchor_by_hut[B]
          /\ RecordedBy(A, B) = {}
          /\ RecordedBy(B, A) = {}

\* ------------------------------------------ the shared structures are read
\* the positions of main inside compute_hut_anchors
Anchoring == pc \in {"index", "anchor"}

\* C22: once build_graph has returned no step changes the trail graph
\* (anchoring, searches and pruning add or remove no edge and create no key,
\* also when the node looked up is absent), and no step after
\* compute_hut_anchors, so no search and no pruning, changes the anchor of a
\* hut or the huts of an anchor (no key appears for a node that anchors no
\* hut)
C22_SharedStructuresReadOnly ==
    [][/\ graph' = graph
       /\ ~Anchoring =>
              /\ anchor_by_hut' = anchor_by_hut
              /\ huts_by_anchor' = huts_by_anchor]_vars

\* the whole of main has run: a hut that is no node of the trail graph was
\* looked up in it, the last search expanded a node that anchors no hut, and
\* the pruning received an edge
C22_Witness ==
    /\ pc = "written"
    /\ hut_ids \ DOMAIN graph # {}
    /\ DOMAIN expansions \ DOMAIN huts_by_anchor # {}
    /\ raw # Nothing

====
